---- MODULE Spec2Model ----
(***************************************************************************)
(* The RTSP viewer's pipeline lifecycle: AppData, ensure_pipeline,        *)
(* start_stream, stop_stream, bus_cb, on_pad_added and the process         *)
(* start-up and exit around them.                                          *)
(*                                                                         *)
(* The repository holds the GTK viewer twice: src/src/main.cpp             *)
(* (waylandsink; stop_stream releases the pipeline) and the first program  *)
(* of src/unnamed/part_000 (gtk4paintablesink; the pipeline is created     *)
(* once and kept).  Both are modelled; "variant" says which one runs, and  *)
(* the definitions of the second carry the suffix _000.                    *)
(*                                                                         *)
(* GStreamer objects are records in "gst", one per construction attempt    *)
(* (build); a pointer is a build number, 0 is nullptr.  Library calls are  *)
(* modelled at their call sites by what they do to these records.          *)
(***************************************************************************)
EXTENDS Integers, FiniteSets, Sequences, TLC

VARIABLES
    variant,   \* which program runs: "main_cpp", "part_000", "doc" or "headless"
    pc,        \* where the process is: "init", "running", "shutdown", "exited"
               \* ("crashed" when a fault killed it); the headless player's
               \* main is at "init", "installed", "playing", "created",
               \* "running", "exited", or "hung" in a deadlocked handler
    app,       \* struct AppData (the fields the lifecycle uses)
    gst,       \* the GStreamer objects of every build made so far
    nbuilds,   \* how many builds (gst_pipeline_new calls) happened
    last,      \* the control-thread handler that returned last, and how
    prev,      \* the start/stop call before it
    teardown,  \* stop_stream calls made since the application began to shut down
    launches   \* launches of the program whose command line this process handled

vars == <<variant, pc, app, gst, nbuilds, last, prev, teardown, launches>>

----------------------------------------------------------------------------
\* Bounds of the model.

\* Builds a run may make (each is one pass through the constructors).
MaxBuilds == 2
\* Messages that may wait on one bus.
MaxPending == 2
\* Launches of the program whose command line reaches the running process.
MaxLaunches == 2
\* SIGINT signals delivered to the headless player.
MaxSigints == 2

Builds == 1..MaxBuilds

\* The six elements of a pipeline, and the seven constructor calls.
Roles == {"src", "depay", "parse", "dec", "conv", "sink"}
Factories == Roles \cup {"pipeline"}

\* Which constructors return NULL in one ensure_pipeline call.  "dec" stands
\* for src, depay, parse, dec and conv alike: the code treats them the same.
FailSets == {{}, {"pipeline"}, {"sink"}, {"dec"}}

\* GstMessage types bus_cb tells apart.  StateChangedPlaying is the pipeline's
\* STATE_CHANGED message for Paused -> Playing, StateChanged the one for its
\* earlier steps, StateChangedChild one whose source is a child element.
MsgKinds == {"Error", "Eos", "StateChanged", "StateChangedPlaying",
             "StateChangedChild", "Warning"}

StateRank == [Null |-> 0, Ready |-> 1, Paused |-> 2, Playing |-> 3]
GstStates == DOMAIN StateRank
\* A pipeline that never leaves Paused (mutant).
NextState_stuck == [Null |-> "Ready", Ready |-> "Paused", Paused |-> "Paused",
                    Playing |-> "Playing"]

NextState == [Null |-> "Ready", Ready |-> "Paused", Paused |-> "Playing",
              Playing |-> "Playing"]

EmptyBus == [k \in MsgKinds |-> 0]
RECURSIVE BusSum(_, _)
BusSum(bus, ks) ==
    IF ks = {} THEN 0
    ELSE LET k == CHOOSE x \in ks : TRUE IN bus[k] + BusSum(bus, ks \ {k})
Pending(bus) == BusSum(bus, MsgKinds)

\* gst_element_set_state(pipeline, GST_STATE_PLAYING) returns SUCCESS/ASYNC
\* (ok) or FAILURE; a failing change leaves the pipeline in the state it had
\* reached and the failing element has posted errs Error messages.
PlayOk == [ok |-> TRUE, reached |-> "Ready", errs |-> 0]
PlayResults ==
    {PlayOk} \cup
    [ok : {FALSE}, reached : {"Null", "Ready"}, errs : 1..MaxPending]

\* What one start_stream call meets: the constructors that fail, whether the
\* static link succeeds, and the result of the PLAYING request.  A later
\* step is only reached when the earlier ones succeed.
StartInputs ==
    [fail : FailSets \ {{}}, linkOk : {TRUE}, r : {PlayOk}] \cup
    [fail : {{}}, linkOk : {FALSE}, r : {PlayOk}] \cup
    [fail : {{}}, linkOk : {TRUE}, r : PlayResults]

\* An object slot before its build.
NoBuild ==
    [pipe      |-> FALSE,   \* the GstPipeline is allocated (refcount > 0)
     elems     |-> {},      \* the elements of this build that are allocated
     inBin     |-> FALSE,   \* gst_bin_add_many gave the elements to the pipeline
     linked    |-> FALSE,   \* depay -> parse -> dec -> conv -> sink
     srcLinked |-> FALSE,   \* rtspsrc pad -> depay sink pad
     padSig    |-> FALSE,   \* pad-added connected to on_pad_added
     watch     |-> FALSE,   \* gst_bus_add_watch(bus, bus_cb, app)
     state     |-> "Null",  \* the pipeline's current GstState
     target    |-> "Null",  \* the state last requested with set_state
     bus       |-> EmptyBus,\* messages waiting on the pipeline's bus
     unrefs    |-> 0,       \* gst_object_unref calls on the pipeline (up to 2)
     stopped   |-> FALSE,   \* stop_stream drove this pipeline to Null
     uaf       |-> FALSE,   \* a call used the pipeline after its release
     sinkUaf   |-> FALSE,   \* app->sink was read after the sink's release
     paintSig  |-> FALSE,   \* notify::paintable connected to on_sink_paintable_notify
     latency   |-> 0,       \* rtspsrc "latency" as configured
     protocols |-> 0,       \* rtspsrc "protocols" as configured
     tier      |-> 0,       \* documented viewer: 1 hardware description, 2 playbin
     tried     |-> <<>>,    \* documented viewer: what ensure_pipeline tried, in order
     sinkDropped |-> FALSE, \* documented viewer: gst_object_unref(vsink) was called
     location  |-> "",      \* rtspsrc "location" (playbin "uri") as configured
     decoder   |-> "",      \* the factory the decoder was made from
     inCb      |-> FALSE,   \* an engine thread is inside on_pad_added
     joined    |-> FALSE,   \* a set_state(NULL) waited for that callback to return
     padUaf    |-> FALSE]   \* on_pad_added used the depayloader after its release

Min(a, b) == IF a < b THEN a ELSE b

\* AppData::latency_ms as initialized, and the "protocols" mask given to
\* rtspsrc.
latency_ms_main == 10
latency_ms_000 == 5
protocols_main == 3
protocols_000 == 1
latency_ms_doc == 10
protocols_doc == 1

\* The flags of rtspsrc's "protocols" property (GstRTSPLowerTrans), and
\* whether a mask allows a transport.
GST_RTSP_LOWER_TRANS_UDP == 1
GST_RTSP_LOWER_TRANS_UDP_MCAST == 2
GST_RTSP_LOWER_TRANS_TCP == 4
Allows(mask, flag) == (mask \div flag) % 2 = 1

\* AppData::url as initialized, and the decoder factories the programs name.
url_default == "rtsp://192.168.1.100:8554/quality_h264"
dec_main == "avdec_h264"
dec_000 == "nvh264dec"
dec_doc == "nvh264dec"

\* The state the handlers work on, as one record.
Cur == [app |-> app, gst |-> gst, n |-> nbuilds]

----------------------------------------------------------------------------
\* GStreamer calls, as the handlers make them.

\* gst_object_unref(app->pipeline): the only reference is dropped, the
\* pipeline is finalized and with it the elements the bin owns.  The bus
\* survives while a watch holds it.
gst_object_unref(s, b) ==
    LET o == s.gst[b] IN
    IF o.pipe
    THEN [s EXCEPT !.gst[b] =
            [o EXCEPT !.pipe = FALSE,
                      !.elems = IF o.inBin THEN {} ELSE o.elems,
                      !.linked = FALSE, !.srcLinked = FALSE,
                      !.padSig = FALSE, !.paintSig = FALSE,
                      !.unrefs = Min(o.unrefs + 1, 2)]]
    ELSE [s EXCEPT !.gst[b] =
            [o EXCEPT !.uaf = TRUE, !.unrefs = Min(o.unrefs + 1, 2)]]

\* set_state(NULL) that returns while a streaming thread is still inside
\* on_pad_added (mutant).
set_state_null_nojoin(s, b) ==
    LET o == s.gst[b] IN
    IF o.pipe
    THEN [s EXCEPT !.gst[b] =
            [o EXCEPT !.state = "Null", !.target = "Null",
                      !.srcLinked = FALSE,
                      !.bus = IF o.state # "Null" THEN EmptyBus ELSE o.bus]]
    ELSE [s EXCEPT !.gst[b].uaf = TRUE]

\* set_state(NULL) after which rtspsrc's pads are still linked to the
\* depayloader (mutant).
set_state_null_keeppads(s, b) ==
    LET o == s.gst[b] IN
    IF o.pipe
    THEN [s EXCEPT !.gst[b] =
            [o EXCEPT !.state = "Null", !.target = "Null",
                      !.inCb = FALSE, !.joined = o.joined \/ o.inCb,
                      !.bus = IF o.state # "Null" THEN EmptyBus ELSE o.bus]]
    ELSE [s EXCEPT !.gst[b].uaf = TRUE]

\* gst_element_set_state(app->pipeline, GST_STATE_NULL): synchronous; the
\* READY->NULL step flushes the bus, rtspsrc drops its dynamic pads, and the
\* streaming threads are stopped and joined, so a pad-added callback in
\* progress has returned when the call returns.
set_state_null(s, b) ==
    LET o == s.gst[b] IN
    IF o.pipe
    THEN [s EXCEPT !.gst[b] =
            [o EXCEPT !.state = "Null", !.target = "Null",
                      !.srcLinked = FALSE,
                      !.inCb = FALSE, !.joined = o.joined \/ o.inCb,
                      !.bus = IF o.state # "Null" THEN EmptyBus ELSE o.bus]]
    ELSE [s EXCEPT !.gst[b].uaf = TRUE]

\* gst_element_set_state(app->pipeline, GST_STATE_PLAYING) with result r.
set_state_playing(s, b, r) ==
    LET o == s.gst[b] IN
    IF ~o.pipe THEN [s EXCEPT !.gst[b].uaf = TRUE]
    ELSE IF r.ok
    THEN [s EXCEPT !.gst[b] =
            [o EXCEPT !.target = "Playing",
                      !.state = IF o.state = "Null" THEN "Ready" ELSE o.state]]
    ELSE [s EXCEPT !.gst[b] =
            [o EXCEPT !.target = "Playing",
                      !.state = IF o.state = "Null" THEN r.reached ELSE o.state,
                      !.bus = [o.bus EXCEPT !["Error"] =
                                  @ + Min(r.errs, MaxPending - Pending(o.bus))]]]

\* if (button) gtk_widget_set_sensitive(button, v): a button is "null"
\* before the window exists, then "sensitive" or "insensitive".
gtk_widget_set_sensitive(w, v) ==
    IF w = "null" THEN "null" ELSE IF v THEN "sensitive" ELSE "insensitive"

----------------------------------------------------------------------------
\* src/src/main.cpp

\* ensure_pipeline: returns [s, ok].  fail is the set of constructors that
\* return NULL, linkOk the result of gst_element_link_many.
ensure_pipeline(s, fail, linkOk) ==
    IF s.app.pipeline # 0 THEN [s |-> s, ok |-> TRUE]
    ELSE
    LET b  == s.n + 1
        s1 == [s EXCEPT
                 !.n = b,
                 !.app.pipeline = IF "pipeline" \in fail THEN 0 ELSE b,
                 !.app.sink = IF "sink" \in fail THEN 0 ELSE b,
                 !.gst[b] = [NoBuild EXCEPT
                               !.pipe = "pipeline" \notin fail,
                               !.elems = Roles \ fail,
                               !.decoder = IF "dec" \in fail THEN ""
                                           ELSE dec_main]]
    IN
    IF fail # {} THEN [s |-> s1, ok |-> FALSE]
    ELSE
    LET s2 == [s1 EXCEPT !.gst[b].location = s.app.url,
                         !.gst[b].latency = s.app.latency_ms,
                         !.gst[b].protocols = protocols_main,
                         !.gst[b].inBin = TRUE] IN
    IF ~linkOk
    THEN [s |-> [gst_object_unref(s2, b) EXCEPT !.app.pipeline = 0], ok |-> FALSE]
    ELSE [s |-> [s2 EXCEPT !.gst[b].linked = TRUE,
                           !.gst[b].padSig = TRUE,
                           !.gst[b].watch = TRUE],
          ok |-> TRUE]

\* start_stream that returns from a failed PLAYING request without the
\* teardown (mutant).
start_stream_noteardown(s, fail, linkOk, r) ==
    LET e == ensure_pipeline(s, fail, linkOk) IN
    IF ~e.ok THEN [s |-> e.s, res |-> "build_failed"]
    ELSE
    LET p  == e.s.app.pipeline
        s1 == set_state_playing(e.s, p, r)
    IN
    IF ~r.ok
    THEN [s |-> s1, res |-> "play_failed"]
    ELSE [s |-> [s1 EXCEPT
                   !.app.start_button = gtk_widget_set_sensitive(@, FALSE),
                   !.app.stop_button = gtk_widget_set_sensitive(@, TRUE)],
          res |-> "playing"]

\* start_stream whose failure path releases the pipeline and keeps the
\* pointer (mutant).
start_stream_dangling(s, fail, linkOk, r) ==
    LET e == ensure_pipeline(s, fail, linkOk) IN
    IF ~e.ok THEN [s |-> e.s, res |-> "build_failed"]
    ELSE
    LET p  == e.s.app.pipeline
        s1 == set_state_playing(e.s, p, r)
    IN
    IF ~r.ok
    THEN [s |-> gst_object_unref(set_state_null(s1, p), p),
          res |-> "play_failed"]
    ELSE [s |-> [s1 EXCEPT
                   !.app.start_button = gtk_widget_set_sensitive(@, FALSE),
                   !.app.stop_button = gtk_widget_set_sensitive(@, TRUE)],
          res |-> "playing"]

\* start_stream that flips the buttons before it looks at the result of the
\* PLAYING request (mutant).
start_stream_eagerbuttons(s, fail, linkOk, r) ==
    LET e == ensure_pipeline(s, fail, linkOk) IN
    IF ~e.ok THEN [s |-> e.s, res |-> "build_failed"]
    ELSE
    LET p  == e.s.app.pipeline
        s1 == [set_state_playing(e.s, p, r) EXCEPT
                 !.app.start_button = gtk_widget_set_sensitive(@, FALSE),
                 !.app.stop_button = gtk_widget_set_sensitive(@, TRUE)]
    IN
    IF ~r.ok
    THEN [s |-> [gst_object_unref(set_state_null(s1, p), p)
                   EXCEPT !.app.pipeline = 0],
          res |-> "play_failed"]
    ELSE [s |-> s1, res |-> "playing"]

\* start_stream: returns [s, res] with res "build_failed", "play_failed" or
\* "playing".
start_stream(s, fail, linkOk, r) ==
    LET e == ensure_pipeline(s, fail, linkOk) IN
    IF ~e.ok THEN [s |-> e.s, res |-> "build_failed"]
    ELSE
    LET p  == e.s.app.pipeline
        s1 == set_state_playing(e.s, p, r)
    IN
    IF ~r.ok
    THEN [s |-> [gst_object_unref(set_state_null(s1, p), p)
                   EXCEPT !.app.pipeline = 0],
          res |-> "play_failed"]
    ELSE [s |-> [s1 EXCEPT
                   !.app.start_button = gtk_widget_set_sensitive(@, FALSE),
                   !.app.stop_button = gtk_widget_set_sensitive(@, TRUE)],
          res |-> "playing"]

\* stop_stream that forgets the pipeline without releasing it (mutant).
stop_stream_leak(s) ==
    IF s.app.pipeline = 0 THEN s
    ELSE
    LET p == s.app.pipeline IN
    [[set_state_null(s, p) EXCEPT !.gst[p].stopped = TRUE] EXCEPT
        !.app.pipeline = 0,
        !.app.start_button = gtk_widget_set_sensitive(@, TRUE),
        !.app.stop_button = gtk_widget_set_sensitive(@, FALSE)]

\* stop_stream that only sets the pipeline to Null and keeps it (mutant).
stop_stream_keep(s) ==
    IF s.app.pipeline = 0 THEN s
    ELSE
    LET p == s.app.pipeline IN
    [[set_state_null(s, p) EXCEPT !.gst[p].stopped = TRUE] EXCEPT
        !.app.start_button = gtk_widget_set_sensitive(@, TRUE),
        !.app.stop_button = gtk_widget_set_sensitive(@, FALSE)]

\* stop_stream that releases the pipeline and keeps the pointer (mutant).
stop_stream_dangling(s) ==
    IF s.app.pipeline = 0 THEN s
    ELSE
    LET p  == s.app.pipeline
        s1 == [set_state_null(s, p) EXCEPT !.gst[p].stopped = TRUE]
    IN [gst_object_unref(s1, p) EXCEPT
          !.app.start_button = gtk_widget_set_sensitive(@, TRUE),
          !.app.stop_button = gtk_widget_set_sensitive(@, FALSE)]

\* stop_stream that releases the pipeline without setting it to Null
\* (mutant).
stop_stream_skipnull(s) ==
    IF s.app.pipeline = 0 THEN s
    ELSE
    LET p  == s.app.pipeline
        s1 == [s EXCEPT !.gst[p].stopped = TRUE]
    IN [gst_object_unref(s1, p) EXCEPT
          !.app.pipeline = 0,
          !.app.start_button = gtk_widget_set_sensitive(@, TRUE),
          !.app.stop_button = gtk_widget_set_sensitive(@, FALSE)]

stop_stream(s) ==
    IF s.app.pipeline = 0 THEN s
    ELSE
    LET p  == s.app.pipeline
        s1 == [set_state_null(s, p) EXCEPT !.gst[p].stopped = TRUE]
    IN [gst_object_unref(s1, p) EXCEPT
          !.app.pipeline = 0,
          !.app.start_button = gtk_widget_set_sensitive(@, TRUE),
          !.app.stop_button = gtk_widget_set_sensitive(@, FALSE)]

\* bus_cb that only logs EOS (mutant).
bus_cb_eos_logged(s, kind) ==
    CASE kind = "Error" -> [s |-> stop_stream(s), res |-> "stopped"]
      [] kind \in {"Eos", "StateChanged", "StateChangedPlaying",
                   "StateChangedChild", "Warning"} ->
            [s |-> s, res |-> "logged"]
      [] OTHER -> [s |-> s, res |-> "ignored"]

\* bus_cb that stops the stream on a warning (mutant).
bus_cb_warnstop(s, kind) ==
    CASE kind \in {"Error", "Eos", "Warning"} ->
            [s |-> stop_stream(s), res |-> "stopped"]
      [] kind \in {"StateChanged", "StateChangedPlaying", "StateChangedChild"} ->
            [s |-> s, res |-> "logged"]
      [] OTHER -> [s |-> s, res |-> "ignored"]

\* bus_cb for a message of type kind: returns [s, res] with res "stopped"
\* (stop_stream was called), "logged" or "ignored".
bus_cb(s, kind) ==
    CASE kind \in {"Error", "Eos"} -> [s |-> stop_stream(s), res |-> "stopped"]
      [] kind \in {"StateChanged", "StateChangedPlaying",
                   "StateChangedChild", "Warning"} ->
            [s |-> s, res |-> "logged"]
      [] OTHER -> [s |-> s, res |-> "ignored"]

\* g_str_has_prefix(name, prefix), on names spelled as sequences of tokens.
g_str_has_prefix(name, prefix) ==
    /\ Len(name) >= Len(prefix)
    /\ SubSeq(name, 1, Len(prefix)) = prefix

\* gst_pad_link(pad, sinkpad) on the depayloader's sink pad of build b: "ok"
\* links it, "was_linked" when the sink pad already has a peer, "refused"
\* when the pads do not fit (compat is FALSE).
gst_pad_link(s, b, compat) ==
    CASE s.gst[b].srcLinked -> [s |-> s, ret |-> "was_linked"]
      [] ~compat            -> [s |-> s, ret |-> "refused"]
      [] OTHER -> [s |-> [s EXCEPT !.gst[b].srcLinked = TRUE], ret |-> "ok"]

\* gst_element_get_static_pad(depay, "sink") through the pointer given to
\* g_signal_connect: TRUE when the depayloader of build b is still allocated.
gst_element_get_static_pad(s, b) == "depay" \in s.gst[b].elems

\* What on_pad_added returns when it used a released depayloader.
UsedReleased(s, b) ==
    [s |-> [s EXCEPT !.gst[b].padUaf = TRUE], res |-> "released",
     tried |-> FALSE, warned |-> FALSE]

\* on_pad_added without the media-type test (mutant).
on_pad_added_nofilter(s, b, name, compat) ==
    LET l == gst_pad_link(s, b, compat) IN
    [s |-> l.s, res |-> l.ret, tried |-> TRUE, warned |-> FALSE]

\* on_pad_added for a pad of build b: name is the name of the pad's caps
\* structure, compat whether the pad fits the depayloader.  Returns [s, res,
\* tried, warned]: res is "ignored" (returned before the link call), or the
\* result of gst_pad_link; tried says that gst_pad_link was called, warned
\* that the handler reported a warning.
on_pad_added(s, b, name, compat) ==
    IF ~g_str_has_prefix(name, <<"video", "/">>)
    THEN [s |-> s, res |-> "ignored", tried |-> FALSE, warned |-> FALSE]
    ELSE IF ~gst_element_get_static_pad(s, b) THEN UsedReleased(s, b)
    ELSE LET l == gst_pad_link(s, b, compat) IN
         [s |-> l.s, res |-> l.ret, tried |-> TRUE, warned |-> FALSE]

\* What gst_pad_get_current_caps returns for a pad that has no caps yet: NULL.
NoCaps == <<"NULL">>

\* on_pad_added for a pad without current caps.  caps is NULL and is passed
\* on unchecked: gst_caps_get_structure(NULL, 0), gst_structure_get_name(NULL)
\* and g_str_has_prefix(NULL, "video/") are calls outside the functions'
\* contracts.  With the libraries' argument checks compiled in (checks) each
\* logs a critical and returns NULL or FALSE, the handler enters the early
\* return and passes NULL to gst_caps_unref, a fourth critical; res is
\* "critical".  Without them (G_DISABLE_CHECKS), or with criticals made
\* fatal, the process dies in the first call; res is "crash".
on_pad_added_nocaps(s, b, checks) ==
    IF checks
    THEN [s |-> s, res |-> "critical", tried |-> FALSE, warned |-> FALSE]
    ELSE [s |-> s, res |-> "crash", tried |-> FALSE, warned |-> FALSE]

\* std::stoi on a string of decimal digits.
RECURSIVE stoi(_)
stoi(digits) ==
    IF Len(digits) = 0 THEN 0
    ELSE 10 * stoi(SubSeq(digits, 1, Len(digits) - 1)) + digits[Len(digits)]

\* on_app_activate up to the automatic start: a new window with its two
\* buttons, Stop insensitive.
on_app_activate_window(s) ==
    [s EXCEPT !.app.start_button = "sensitive",
              !.app.stop_button = "insensitive"]

\* on_command_line for the arguments argv (argv[0], the program name, left
\* out): the fields are overwritten from the arguments present, then
\* g_application_activate runs on_app_activate, whose start_stream meets
\* fail, linkOk and r.  Returns [s, res] as start_stream does.
on_command_line(s, argv, fail, linkOk, r) ==
    LET argc == Len(argv) + 1
        s1 == [s EXCEPT
                 !.app.url = IF argc > 1 THEN argv[1] ELSE @,
                 !.app.latency_ms = IF argc > 2 THEN stoi(argv[2]) ELSE @,
                 !.app.force_hw = IF argc > 3 /\ argv[3] \in {"hw", "--hw"}
                                  THEN TRUE ELSE @]
    IN start_stream(on_app_activate_window(s1), fail, linkOk, r)

----------------------------------------------------------------------------
\* src/unnamed/part_000 (the GTK viewer with gtk4paintablesink)

\* ensure_paintable: reads the sink's "paintable" through app->sink and
\* gives it to the picture widget (which exists whenever this runs).
ensure_paintable_000(s) ==
    IF s.app.sink = 0 THEN s
    ELSE IF "sink" \in s.gst[s.app.sink].elems
    THEN [s EXCEPT !.app.paintable = s.app.sink]
    ELSE [s EXCEPT !.gst[s.app.sink].sinkUaf = TRUE]

ensure_pipeline_000(s, fail, linkOk) ==
    IF s.app.pipeline # 0 THEN [s |-> s, ok |-> TRUE]
    ELSE
    LET b  == s.n + 1
        s1 == [s EXCEPT
                 !.n = b,
                 !.app.pipeline = IF "pipeline" \in fail THEN 0 ELSE b,
                 !.app.sink = IF "sink" \in fail THEN 0 ELSE b,
                 !.gst[b] = [NoBuild EXCEPT
                               !.pipe = "pipeline" \notin fail,
                               !.elems = Roles \ fail,
                               !.decoder = IF "dec" \in fail THEN ""
                                           ELSE dec_000]]
    IN
    IF fail # {}
    THEN [s |-> IF s1.app.pipeline # 0
                THEN [gst_object_unref(s1, b) EXCEPT !.app.pipeline = 0]
                ELSE s1,
          ok |-> FALSE]
    ELSE
    LET s2 == [s1 EXCEPT !.gst[b].location = s.app.url,
                         !.gst[b].latency = s.app.latency_ms,
                         !.gst[b].protocols = protocols_000,
                         !.gst[b].inBin = TRUE] IN
    IF ~linkOk
    THEN [s |-> [gst_object_unref(s2, b) EXCEPT !.app.pipeline = 0], ok |-> FALSE]
    ELSE [s |-> ensure_paintable_000(
                   [s2 EXCEPT !.gst[b].linked = TRUE,
                              !.gst[b].padSig = TRUE,
                              !.gst[b].paintSig = TRUE,
                              !.gst[b].watch = TRUE]),
          ok |-> TRUE]

\* start_stream that connects the display before it ensures the pipeline
\* (mutant).
start_stream_000_paintfirst(s, fail, linkOk, r) ==
    LET e == ensure_pipeline_000(ensure_paintable_000(s), fail, linkOk) IN
    IF ~e.ok THEN [s |-> e.s, res |-> "build_failed"]
    ELSE
    LET p  == e.s.app.pipeline
        s1 == set_state_playing(e.s, p, r)
    IN
    IF ~r.ok
    THEN [s |-> set_state_null(s1, p), res |-> "play_failed"]
    ELSE [s |-> [s1 EXCEPT
                   !.app.start_button = gtk_widget_set_sensitive(@, FALSE),
                   !.app.stop_button = gtk_widget_set_sensitive(@, TRUE)],
          res |-> "playing"]

start_stream_000(s, fail, linkOk, r) ==
    LET e == ensure_pipeline_000(s, fail, linkOk) IN
    IF ~e.ok THEN [s |-> e.s, res |-> "build_failed"]
    ELSE
    LET p  == e.s.app.pipeline
        s1 == set_state_playing(ensure_paintable_000(e.s), p, r)
    IN
    IF ~r.ok
    THEN [s |-> set_state_null(s1, p), res |-> "play_failed"]
    ELSE [s |-> [s1 EXCEPT
                   !.app.start_button = gtk_widget_set_sensitive(@, FALSE),
                   !.app.stop_button = gtk_widget_set_sensitive(@, TRUE)],
          res |-> "playing"]

\* stop_stream that also releases the pipeline but keeps the pointer
\* (mutant).
stop_stream_000_unref(s) ==
    IF s.app.pipeline = 0 THEN s
    ELSE
    LET p == s.app.pipeline IN
    [gst_object_unref([set_state_null(s, p) EXCEPT !.gst[p].stopped = TRUE], p)
       EXCEPT
        !.app.start_button = gtk_widget_set_sensitive(@, TRUE),
        !.app.stop_button = gtk_widget_set_sensitive(@, FALSE)]

stop_stream_000(s) ==
    IF s.app.pipeline = 0 THEN s
    ELSE
    LET p == s.app.pipeline IN
    [[set_state_null(s, p) EXCEPT !.gst[p].stopped = TRUE] EXCEPT
        !.app.start_button = gtk_widget_set_sensitive(@, TRUE),
        !.app.stop_button = gtk_widget_set_sensitive(@, FALSE)]

\* bus_cb that logs every state change, whatever its source (mutant).
bus_cb_000_nofilter(s, b, kind) ==
    CASE kind \in {"Error", "Eos"} -> [s |-> stop_stream_000(s), res |-> "stopped"]
      [] kind \in {"StateChanged", "StateChangedPlaying", "StateChangedChild"} ->
            [s |-> s, res |-> "logged"]
      [] OTHER -> [s |-> s, res |-> "ignored"]

\* bus_cb for a message of type kind that came from the bus of build b.
bus_cb_000(s, b, kind) ==
    CASE kind \in {"Error", "Eos"} -> [s |-> stop_stream_000(s), res |-> "stopped"]
      [] kind \in {"StateChanged", "StateChangedPlaying"} ->
            [s |-> s, res |-> IF b = s.app.pipeline THEN "logged" ELSE "ignored"]
      [] OTHER -> [s |-> s, res |-> "ignored"]

\* on_pad_added without the already-linked test (mutant).
on_pad_added_000_noguard(s, b, name, compat) ==
    LET l == gst_pad_link(s, b, compat) IN
    [s |-> l.s, res |-> l.ret, tried |-> TRUE, warned |-> l.ret # "ok"]

\* on_pad_added that stops the stream when the link fails (mutant).
on_pad_added_000_fatal(s, b, name, compat) ==
    IF s.gst[b].srcLinked
    THEN [s |-> s, res |-> "ignored", tried |-> FALSE, warned |-> FALSE]
    ELSE LET l == gst_pad_link(s, b, compat) IN
         [s |-> IF l.ret = "ok" THEN l.s ELSE stop_stream_000(l.s),
          res |-> l.ret, tried |-> TRUE, warned |-> l.ret # "ok"]

\* on_pad_added: the depayloader's sink pad is looked up, an already linked
\* pad returns early, otherwise the link is tried and a failure reported.
on_pad_added_000(s, b, name, compat) ==
    IF ~gst_element_get_static_pad(s, b) THEN UsedReleased(s, b)
    ELSE IF s.gst[b].srcLinked
    THEN [s |-> s, res |-> "ignored", tried |-> FALSE, warned |-> FALSE]
    ELSE LET l == gst_pad_link(s, b, compat) IN
         [s |-> l.s, res |-> l.ret, tried |-> TRUE, warned |-> l.ret # "ok"]

\* The end of main without the release (mutant).
main_cleanup_000_nounref(s) == stop_stream_000(s)

\* The end of main: stop_stream, then the pipeline is released if still held.
main_cleanup_000(s) ==
    LET s1 == stop_stream_000(s) IN
    IF s1.app.pipeline # 0
    THEN [gst_object_unref(s1, s1.app.pipeline) EXCEPT !.app.pipeline = 0]
    ELSE s1

----------------------------------------------------------------------------
\* src/docs/project_documentation.md (the viewer with the playbin fallback)

\* The video sinks the fallback probes, in this order.
candidates == <<"autovideosink", "xvimagesink", "ximagesink", "gtksink">>

\* The sets of candidate sinks gst_element_factory_make can construct.
SinkSets == {{}, {"autovideosink"}, {"xvimagesink", "gtksink"}, {"gtksink"}}

\* gst_parse_launch(hw_desc, &err) by whether the hardware decoder elements
\* exist: the pipeline ("ok"), or with them missing either NULL ("null") or
\* the partially built pipeline together with the error ("partial"), the
\* case ensure_pipeline meets with "if (pipeline) { if (err) ... }".
gst_parse_launch(hw) == IF hw THEN {"ok"} ELSE {"partial", "null"}

\* What one start_stream call of the documented viewer meets.
DocInputs ==
    [hw : {TRUE}, parse : gst_parse_launch(TRUE), playbin : {TRUE},
     sinks : {{"autovideosink"}}, r : PlayResults] \cup
    [hw : {FALSE}, parse : {"partial"}, playbin : {TRUE},
     sinks : {{"autovideosink"}}, r : PlayResults] \cup
    [hw : {FALSE}, parse : {"null"}, playbin : {FALSE},
     sinks : {{"autovideosink"}}, r : {PlayOk}] \cup
    [hw : {FALSE}, parse : {"null"}, playbin : {TRUE},
     sinks : {{}}, r : {PlayOk}] \cup
    [hw : {FALSE}, parse : {"null"}, playbin : {TRUE},
     sinks : SinkSets \ {{}}, r : PlayResults]

\* The loop over the candidates without its break: every candidate is
\* constructed, the first one made is used (mutant).
RECURSIVE probe_sinks_all(_, _, _)
probe_sinks_all(i, sinks, tried) ==
    IF i > Len(candidates) THEN [tried |-> tried, vsink |-> 0]
    ELSE LET rest == probe_sinks_all(i + 1, sinks, Append(tried, candidates[i]))
         IN IF candidates[i] \in sinks
            THEN [tried |-> rest.tried, vsink |-> i]
            ELSE rest

\* The loop over the candidates from index i on: returns what it tried and
\* the index of the sink it made (0 when none could be made).
RECURSIVE probe_sinks(_, _, _)
probe_sinks(i, sinks, tried) ==
    IF i > Len(candidates) THEN [tried |-> tried, vsink |-> 0]
    ELSE IF candidates[i] \in sinks
    THEN [tried |-> Append(tried, candidates[i]), vsink |-> i]
    ELSE probe_sinks(i + 1, sinks, Append(tried, candidates[i]))

\* ensure_pipeline that asks for playbin before the hardware pipeline
\* (mutant).
ensure_pipeline_doc_swapped(s, in) ==
    IF s.app.pipeline # 0 THEN [s |-> s, ok |-> TRUE]
    ELSE
    LET b == s.n + 1 IN
    [s |-> [s EXCEPT !.n = b, !.app.pipeline = b,
                     !.gst[b] = [NoBuild EXCEPT
                                   !.tried = <<"playbin", "hw">>,
                                   !.pipe = TRUE, !.elems = Roles,
                                   !.inBin = TRUE, !.linked = TRUE,
                                   !.watch = TRUE, !.tier = 1]],
     ok |-> TRUE]

\* ensure_pipeline: returns [s, ok].
ensure_pipeline_doc(s, in) ==
    IF s.app.pipeline # 0 THEN [s |-> s, ok |-> TRUE]
    ELSE
    LET b  == s.n + 1
        s0 == [s EXCEPT !.n = b,
                        !.gst[b] = [NoBuild EXCEPT !.tried = <<"hw">>]]
    IN
    IF in.parse # "null"
    THEN [s |-> [s0 EXCEPT
                   !.app.pipeline = b,
                   !.gst[b] = [@ EXCEPT
                       !.pipe = TRUE,
                       !.elems = IF in.parse = "ok" THEN Roles
                                 ELSE Roles \ {"dec"},
                       !.inBin = TRUE,
                       !.linked = (in.parse = "ok"),
                       !.decoder = IF in.parse = "ok" THEN dec_doc ELSE "",
                       !.location = s.app.url,
                       !.latency = s.app.latency_ms,
                       !.protocols = protocols_doc,
                       !.watch = TRUE,
                       !.tier = 1]],
          ok |-> TRUE]
    ELSE
    LET s1 == [s0 EXCEPT !.gst[b].tried = Append(@, "playbin")] IN
    IF ~in.playbin THEN [s |-> s1, ok |-> FALSE]
    ELSE
    LET pr == probe_sinks(1, in.sinks, s1.gst[b].tried)
        s2 == [s1 EXCEPT !.gst[b].pipe = TRUE, !.gst[b].tried = pr.tried]
    IN
    IF pr.vsink = 0 THEN [s |-> gst_object_unref(s2, b), ok |-> FALSE]
    ELSE [s |-> [s2 EXCEPT
                   !.app.pipeline = b,
                   !.gst[b] = [@ EXCEPT !.elems = {"sink"},
                                        !.location = s.app.url,
                                        !.inBin = TRUE,
                                        !.watch = TRUE,
                                        !.sinkDropped = TRUE,
                                        !.tier = 2]],
          ok |-> TRUE]

start_stream_doc(s, in) ==
    LET e == ensure_pipeline_doc(s, in) IN
    IF ~e.ok THEN [s |-> e.s, res |-> "build_failed"]
    ELSE
    LET p  == e.s.app.pipeline
        s1 == set_state_playing(e.s, p, in.r)
    IN
    IF ~in.r.ok
    THEN [s |-> [gst_object_unref(set_state_null(s1, p), p)
                   EXCEPT !.app.pipeline = 0],
          res |-> "play_failed"]
    ELSE [s |-> [s1 EXCEPT
                   !.app.start_button = gtk_widget_set_sensitive(@, FALSE),
                   !.app.stop_button = gtk_widget_set_sensitive(@, TRUE)],
          res |-> "playing"]

stop_stream_doc(s) ==
    IF s.app.pipeline = 0 THEN s
    ELSE
    LET p  == s.app.pipeline
        s1 == [set_state_null(s, p) EXCEPT !.gst[p].stopped = TRUE]
    IN [gst_object_unref(s1, p) EXCEPT
          !.app.pipeline = 0,
          !.app.start_button = gtk_widget_set_sensitive(@, TRUE),
          !.app.stop_button = gtk_widget_set_sensitive(@, FALSE)]

\* bus_cb: Error and EOS stop the stream, everything else is dropped.
bus_cb_doc(s, kind) ==
    CASE kind \in {"Error", "Eos"} -> [s |-> stop_stream_doc(s), res |-> "stopped"]
      [] OTHER -> [s |-> s, res |-> "ignored"]

----------------------------------------------------------------------------
\* src/unnamed/part_000, the headless player (lines 460-550)

\* The default of the local variable url.
url_hl == "rtsp://192.168.1.100:8554/quality_h264"

\* The elements named in pipeline_desc.
Roles_hl == Roles \cup {"download", "queue"}

\* g_main_loop_quit(loop): the loop's running flag is cleared.  The call
\* has an effect on a g_main_loop_run in progress only: g_main_loop_run sets
\* the flag when it starts.
g_main_loop_quit(s) == [s EXCEPT !.app.is_running = FALSE]

\* What a handler that reached "if (loop) g_main_loop_quit(loop)" reports:
\* the loop was running and will return ("stopping"), the loop exists but
\* is not running ("no_effect"), or loop is still nullptr ("ignored").
QuitRes(s) ==
    CASE s.app.loop = "null" -> "ignored"
      [] s.app.is_running   -> "stopping"
      [] OTHER              -> "no_effect"

\* bus_cb for a message of type kind: returns [s, res].
bus_cb_hl(s, kind) ==
    IF kind \in {"Error", "Eos"}
    THEN [s |-> IF s.app.loop # "null" THEN g_main_loop_quit(s) ELSE s,
          res |-> QuitRes(s)]
    ELSE [s |-> s, res |-> "ignored"]

\* on_sigint: returns [s, res].  g_main_loop_quit locks the main context's
\* mutex and is not async-signal-safe: when the signal interrupted the main
\* thread inside the main context's critical section (reentered), the
\* handler waits for a mutex its own thread holds; res is "deadlock".
on_sigint(s, reentered) ==
    IF s.app.loop = "null" THEN [s |-> s, res |-> "ignored"]
    ELSE IF reentered THEN [s |-> s, res |-> "deadlock"]
    ELSE [s |-> g_main_loop_quit(s), res |-> QuitRes(s)]

\* main up to std::signal (lines 502-537) with the program's argument url
\* and the outcome parse of gst_parse_launch: returns [s, status], status 1
\* when main returned 1, -1 when it goes on.
main_setup_hl(s, url, parse) ==
    IF parse = "null" THEN [s |-> [s EXCEPT !.app.status = 1], status |-> 1]
    ELSE
    LET b == s.n + 1 IN
    [s |-> [s EXCEPT
              !.n = b,
              !.app.pipeline = b,
              !.gst[b] = [NoBuild EXCEPT
                  !.pipe = TRUE,
                  !.elems = IF parse = "ok" THEN Roles_hl
                            ELSE Roles_hl \ {"dec", "download"},
                  !.inBin = TRUE,
                  !.linked = (parse = "ok"),
                  !.decoder = IF parse = "ok" THEN dec_000 ELSE "",
                  !.location = url,
                  !.protocols = GST_RTSP_LOWER_TRANS_UDP,
                  !.watch = TRUE]],
     status |-> -1]

\* main after g_main_loop_run returned (lines 545-549): the pipeline is set
\* to NULL and released, the loop is released, main returns 0.
main_stop_hl(s) ==
    LET p == s.app.pipeline IN
    [gst_object_unref(set_state_null(s, p), p) EXCEPT
        !.app.loop = "freed", !.app.status = 0]

----------------------------------------------------------------------------
\* The state machine.

\* What on_pad_added leaves in "last": the name of the pad's caps, whether
\* gst_pad_link was called and whether a warning was reported.  NoPad when
\* the handler in "last" is another one.
NoPad == [name |-> <<>>, tried |-> FALSE, warned |-> FALSE]

NoCall == [msg |-> "-", call |-> "-", res |-> "-", pad |-> NoPad]

\* The names of the caps a discovered pad may carry.
CapsNames == {<<"video", "/", "x-h264">>, <<"audio", "/", "x-opus">>}

\* What a handler leaves in "last": the message it handled (bus_cb; the
\* signal name for on_pad_added), whether it called start_stream or
\* stop_stream, and the result.
Call(msg, call, res) == [msg |-> msg, call |-> call, res |-> res, pad |-> NoPad]

\* How a stop_stream call finds the pipeline: none ("noop"), or one and the
\* state it is in.
StopRes ==
    IF app.pipeline = 0 THEN "noop"
    ELSE CASE gst[app.pipeline].state = "Playing" -> "stopped_playing"
           [] gst[app.pipeline].state = "Null" -> "stopped_null"
           [] OTHER -> "stopped_starting"

\* "prev" keeps the start_stream or stop_stream call made before the handler
\* in "last"; a handler that called neither does not displace it.
Commit(s, c) ==
    /\ app' = s.app
    /\ gst' = s.gst
    /\ nbuilds' = s.n
    /\ prev' = IF last.call = "-" THEN prev ELSE last
    /\ last' = c

\* A start_stream call needs a free build slot when it has to construct.
CanBuild == app.pipeline # 0 \/ nbuilds < MaxBuilds

Init ==
    /\ variant \in {"main_cpp", "part_000"}
    /\ pc = "init"
    /\ app = [pipeline |-> 0, sink |-> 0,
              start_button |-> "null", stop_button |-> "null",
              paintable |-> 0,
              url |-> url_default, force_hw |-> FALSE,
              latency_ms |-> IF variant = "main_cpp" THEN latency_ms_main
                             ELSE latency_ms_000]
    /\ gst = [b \in Builds |-> NoBuild]
    /\ nbuilds = 0
    /\ last = NoCall
    /\ prev = NoCall
    /\ teardown = 0
    /\ launches = 0

\* The window with its two buttons, as on_app_activate leaves it before the
\* automatic start.
Activated == [Cur EXCEPT !.app.start_button = "sensitive",
                         !.app.stop_button = "insensitive"]

\* g_application_run returns without "activate" or "shutdown" having been
\* emitted in this process (it is not the primary instance).
run_not_primary ==
    /\ pc = "init"
    /\ pc' = "shutdown"
    /\ UNCHANGED <<variant, launches, app, gst, nbuilds, last, prev, teardown>>

\* ---- src/src/main.cpp ----

on_app_activate ==
    /\ variant = "main_cpp" /\ pc = "init"
    /\ \E in \in StartInputs :
         LET o == start_stream(Activated, in.fail, in.linkOk, in.r) IN
         Commit(o.s, Call("-", "start_stream", o.res))
    /\ pc' = "running"
    /\ UNCHANGED <<variant, launches, teardown>>

on_start_clicked ==
    /\ variant = "main_cpp" /\ pc = "running"
    /\ app.start_button = "sensitive"
    /\ CanBuild
    /\ \E in \in StartInputs :
         LET o == start_stream(Cur, in.fail, in.linkOk, in.r) IN
         Commit(o.s, Call("-", "start_stream", o.res))
    /\ UNCHANGED <<variant, launches, pc, teardown>>

on_stop_clicked ==
    /\ variant = "main_cpp" /\ pc = "running"
    /\ app.stop_button = "sensitive"
    /\ Commit(stop_stream(Cur), Call("-", "stop_stream", StopRes))
    /\ UNCHANGED <<variant, launches, pc, teardown>>

\* The main loop takes one message from a watched bus and calls bus_cb.
bus_dispatch ==
    /\ variant = "main_cpp" /\ pc = "running"
    /\ \E b \in Builds, kind \in MsgKinds :
         /\ gst[b].watch /\ gst[b].bus[kind] > 0
         /\ LET s == [Cur EXCEPT !.gst[b].bus[kind] = @ - 1]
                o == bus_cb(s, kind)
            IN Commit(o.s, Call(kind,
                                IF o.res = "stopped" THEN "stop_stream" ELSE "-",
                                IF o.res = "stopped" THEN StopRes ELSE o.res))
    /\ UNCHANGED <<variant, launches, pc, teardown>>

\* on_app_shutdown that does not stop the stream (mutant).
on_app_shutdown_nostop ==
    /\ variant = "main_cpp" /\ pc = "running"
    /\ Commit(Cur, Call("-", "-", "-"))
    /\ pc' = "shutdown"
    /\ UNCHANGED <<variant, launches, teardown>>

on_app_shutdown ==
    /\ variant = "main_cpp" /\ pc = "running"
    /\ Commit(stop_stream(Cur), Call("-", "stop_stream", StopRes))
    /\ pc' = "shutdown"
    /\ teardown' = teardown + 1
    /\ UNCHANGED <<variant, launches>>

\* main after g_application_run returned.
main_cleanup ==
    /\ variant = "main_cpp" /\ pc = "shutdown"
    /\ Commit(stop_stream(Cur), Call("-", "stop_stream", StopRes))
    /\ pc' = "exited"
    /\ teardown' = teardown + 1
    /\ UNCHANGED <<variant, launches>>

\* The command lines the viewer is started with, in this process or in a
\* later one that hands its arguments to this one: URL, latency in digits,
\* decoder flag.
url_other == "rtsp://192.168.1.200:8554/stream"
Argvs ==
    {<<>>,
     <<url_other, <<2, 0>>, "hw">>,
     <<url_other, <<2, 0>>, "sw">>}

\* GApplication emits "command-line" in the primary instance: for its own
\* arguments when g_application_run starts, and again for every later
\* launch of the program; on_command_line runs.
command_line ==
    /\ variant = "main_cpp" /\ pc \in {"init", "running"}
    /\ launches < MaxLaunches
    /\ CanBuild
    /\ \E argv \in Argvs, in \in StartInputs :
         LET o == on_command_line(Cur, argv, in.fail, in.linkOk, in.r) IN
         Commit(o.s, Call("command-line", "start_stream", o.res))
    /\ pc' = "running"
    /\ launches' = launches + 1
    /\ UNCHANGED <<variant, teardown>>

\* ---- src/unnamed/part_000 ----

on_app_activate_000 ==
    /\ variant = "part_000" /\ pc = "init"
    /\ \E in \in StartInputs :
         LET o == start_stream_000(Activated, in.fail, in.linkOk, in.r) IN
         Commit(o.s, Call("-", "start_stream", o.res))
    /\ pc' = "running"
    /\ UNCHANGED <<variant, launches, teardown>>

on_start_clicked_000 ==
    /\ variant = "part_000" /\ pc = "running"
    /\ app.start_button = "sensitive"
    /\ CanBuild
    /\ \E in \in StartInputs :
         LET o == start_stream_000(Cur, in.fail, in.linkOk, in.r) IN
         Commit(o.s, Call("-", "start_stream", o.res))
    /\ UNCHANGED <<variant, launches, pc, teardown>>

on_stop_clicked_000 ==
    /\ variant = "part_000" /\ pc = "running"
    /\ app.stop_button = "sensitive"
    /\ Commit(stop_stream_000(Cur),
              Call("-", "stop_stream", StopRes))
    /\ UNCHANGED <<variant, launches, pc, teardown>>

bus_dispatch_000 ==
    /\ variant = "part_000" /\ pc = "running"
    /\ \E b \in Builds, kind \in MsgKinds :
         /\ gst[b].watch /\ gst[b].bus[kind] > 0
         /\ LET s == [Cur EXCEPT !.gst[b].bus[kind] = @ - 1]
                o == bus_cb_000(s, b, kind)
            IN Commit(o.s, Call(kind,
                                IF o.res = "stopped" THEN "stop_stream" ELSE "-",
                                IF o.res = "stopped" THEN StopRes ELSE o.res))
    /\ UNCHANGED <<variant, launches, pc, teardown>>

on_app_shutdown_000 ==
    /\ variant = "part_000" /\ pc = "running"
    /\ Commit(stop_stream_000(Cur),
              Call("-", "stop_stream", StopRes))
    /\ pc' = "shutdown"
    /\ teardown' = teardown + 1
    /\ UNCHANGED <<variant, launches>>

main_exit_000 ==
    /\ variant = "part_000" /\ pc = "shutdown"
    /\ Commit(main_cleanup_000(Cur), Call("-", "stop_stream", StopRes))
    /\ pc' = "exited"
    /\ teardown' = teardown + 1
    /\ UNCHANGED <<variant, launches>>

\* The sink of the playing pipeline changes its "paintable" property;
\* on_sink_paintable_notify runs.
on_sink_paintable_notify_000 ==
    /\ variant = "part_000" /\ pc = "running"
    /\ \E b \in Builds :
         /\ gst[b].pipe /\ gst[b].paintSig /\ gst[b].target = "Playing"
         /\ Commit(ensure_paintable_000(Cur), Call("notify::paintable", "-", "shown"))
    /\ UNCHANGED <<variant, launches, pc, teardown>>

\* ---- src/docs/project_documentation.md ----

InitDoc ==
    /\ variant = "doc"
    /\ pc = "init"
    /\ app = [pipeline |-> 0, sink |-> 0,
              start_button |-> "null", stop_button |-> "null",
              paintable |-> 0, url |-> url_default, force_hw |-> FALSE,
              latency_ms |-> latency_ms_doc]
    /\ gst = [b \in Builds |-> NoBuild]
    /\ nbuilds = 0
    /\ last = NoCall
    /\ prev = NoCall
    /\ teardown = 0
    /\ launches = 0

on_app_activate_doc ==
    /\ variant = "doc" /\ pc = "init"
    /\ \E in \in DocInputs :
         LET o == start_stream_doc(Activated, in) IN
         Commit(o.s, Call("-", "start_stream", o.res))
    /\ pc' = "running"
    /\ UNCHANGED <<variant, launches, teardown>>

on_start_clicked_doc ==
    /\ variant = "doc" /\ pc = "running"
    /\ app.start_button = "sensitive"
    /\ CanBuild
    /\ \E in \in DocInputs :
         LET o == start_stream_doc(Cur, in) IN
         Commit(o.s, Call("-", "start_stream", o.res))
    /\ UNCHANGED <<variant, launches, pc, teardown>>

on_stop_clicked_doc ==
    /\ variant = "doc" /\ pc = "running"
    /\ app.stop_button = "sensitive"
    /\ Commit(stop_stream_doc(Cur), Call("-", "stop_stream", StopRes))
    /\ UNCHANGED <<variant, launches, pc, teardown>>

bus_dispatch_doc ==
    /\ variant = "doc" /\ pc = "running"
    /\ \E b \in Builds, kind \in MsgKinds :
         /\ gst[b].watch /\ gst[b].bus[kind] > 0
         /\ LET s == [Cur EXCEPT !.gst[b].bus[kind] = @ - 1]
                o == bus_cb_doc(s, kind)
            IN Commit(o.s, Call(kind,
                                IF o.res = "stopped" THEN "stop_stream" ELSE "-",
                                IF o.res = "stopped" THEN StopRes ELSE o.res))
    /\ UNCHANGED <<variant, launches, pc, teardown>>

on_app_shutdown_doc ==
    /\ variant = "doc" /\ pc = "running"
    /\ Commit(stop_stream_doc(Cur), Call("-", "stop_stream", StopRes))
    /\ pc' = "shutdown"
    /\ teardown' = teardown + 1
    /\ UNCHANGED <<variant, launches>>

main_cleanup_doc ==
    /\ variant = "doc" /\ pc = "shutdown"
    /\ Commit(stop_stream_doc(Cur), Call("-", "stop_stream", StopRes))
    /\ pc' = "exited"
    /\ teardown' = teardown + 1
    /\ UNCHANGED <<variant, launches>>

\* ---- src/unnamed/part_000, the headless player ----

InitHl ==
    /\ variant = "headless"
    /\ pc = "init"
    /\ app = [pipeline |-> 0, loop |-> "null", is_running |-> FALSE,
              status |-> -1, sigints |-> 0]
    /\ gst = [b \in Builds |-> NoBuild]
    /\ nbuilds = 0
    /\ last = NoCall
    /\ prev = NoCall
    /\ teardown = 0
    /\ launches = 0

\* main from its first line to std::signal(SIGINT, on_sigint): it returns 1
\* when gst_parse_launch gave no pipeline, otherwise the bus is watched and
\* the handler installed.
hl_setup ==
    /\ variant = "headless" /\ pc = "init"
    /\ \E url \in {url_hl, url_other}, hw \in BOOLEAN :
         \E parse \in gst_parse_launch(hw) :
            LET o == main_setup_hl(Cur, url, parse) IN
            /\ Commit(o.s, Call("-", "-", parse))
            /\ pc' = IF o.status = 1 THEN "exited" ELSE "installed"
    /\ UNCHANGED <<variant, launches, teardown>>

\* gst_element_set_state(pipeline, GST_STATE_PLAYING); the result is not
\* looked at.
hl_play ==
    /\ variant = "headless" /\ pc = "installed"
    /\ \E r \in PlayResults :
         Commit(set_state_playing(Cur, app.pipeline, r), Call("-", "-", "-"))
    /\ pc' = "playing"
    /\ UNCHANGED <<variant, launches, teardown>>

\* loop = g_main_loop_new(nullptr, FALSE).
hl_loop_new ==
    /\ variant = "headless" /\ pc = "playing"
    /\ Commit([Cur EXCEPT !.app.loop = "alive"], Call("-", "-", "-"))
    /\ pc' = "created"
    /\ UNCHANGED <<variant, launches, teardown>>

\* g_main_loop_run(loop) starts: it sets the running flag, whatever a quit
\* before it did.
hl_loop_run ==
    /\ variant = "headless" /\ pc = "created"
    /\ Commit([Cur EXCEPT !.app.is_running = TRUE], Call("-", "-", "-"))
    /\ pc' = "running"
    /\ UNCHANGED <<variant, launches, teardown>>

\* The running loop takes one message from the bus and calls bus_cb.
hl_bus_dispatch ==
    /\ variant = "headless" /\ pc = "running" /\ app.is_running
    /\ \E b \in Builds, kind \in MsgKinds :
         /\ gst[b].watch /\ gst[b].bus[kind] > 0
         /\ LET s == [Cur EXCEPT !.gst[b].bus[kind] = @ - 1]
                o == bus_cb_hl(s, kind)
            IN Commit(o.s, Call(kind,
                                IF o.res = "ignored" THEN "-"
                                ELSE "g_main_loop_quit",
                                o.res))
    /\ UNCHANGED <<variant, launches, pc, teardown>>

\* SIGINT is delivered while on_sigint is installed.
hl_sigint ==
    /\ variant = "headless"
    /\ pc \in {"installed", "playing", "created", "running"}
    /\ app.sigints < MaxSigints
    /\ \E reentered \in BOOLEAN :
         /\ reentered => pc = "running"
         /\ LET o == on_sigint([Cur EXCEPT !.app.sigints = @ + 1], reentered)
            IN /\ Commit(o.s, Call("SIGINT",
                                   IF o.res \in {"stopping", "no_effect"}
                                   THEN "g_main_loop_quit" ELSE "-",
                                   o.res))
               /\ pc' = IF o.res = "deadlock" THEN "hung" ELSE pc
    /\ UNCHANGED <<variant, launches, teardown>>

\* g_main_loop_run returns once the running flag is clear, and main runs
\* to its end.
hl_stop ==
    /\ variant = "headless" /\ pc = "running" /\ ~app.is_running
    /\ Commit(main_stop_hl(Cur), Call("-", "-", "-"))
    /\ pc' = "exited"
    /\ UNCHANGED <<variant, launches, teardown>>

\* ---- the media engine (GStreamer's streaming threads) ----

\* The positions of the process at which streaming threads may run: inside
\* the main loop and, in the headless player, from the PLAYING request on.
Streaming == {"running", "playing", "created"}

\* A pipeline asked to play and not yet released is worked on by the engine.
Active(b) == gst[b].pipe /\ gst[b].target = "Playing" /\ gst[b].state # "Null"

\* The pipeline reaches its next state and posts STATE_CHANGED.
engine_advance ==
    /\ pc \in Streaming
    /\ \E b \in Builds :
         /\ Active(b) /\ gst[b].state # "Playing"
         /\ Pending(gst[b].bus) < MaxPending
         /\ LET kind == IF NextState[gst[b].state] = "Playing"
                        THEN "StateChangedPlaying" ELSE "StateChanged"
            IN gst' = [gst EXCEPT ![b].state = NextState[@],
                                  ![b].bus[kind] = @ + 1]
    /\ UNCHANGED <<variant, launches, pc, app, nbuilds, last, prev, teardown>>

\* An element posts a message on the pipeline's bus.
engine_post ==
    /\ pc \in Streaming
    /\ \E b \in Builds, kind \in {"Error", "Eos", "StateChangedChild", "Warning"} :
         /\ Active(b) /\ gst[b].inBin
         /\ Pending(gst[b].bus) < MaxPending
         /\ gst' = [gst EXCEPT ![b].bus[kind] = @ + 1]
    /\ UNCHANGED <<variant, launches, pc, app, nbuilds, last, prev, teardown>>

\* rtspsrc exposes a pad and emits pad-added; on_pad_added runs.
pad_added ==
    /\ pc = "running"
    /\ \E b \in Builds, name \in CapsNames, compat \in BOOLEAN :
         /\ Active(b) /\ gst[b].padSig
         /\ LET o == IF variant = "main_cpp"
                     THEN on_pad_added(Cur, b, name, compat)
                     ELSE on_pad_added_000(Cur, b, name, compat)
            IN Commit(o.s, [msg |-> "pad-added", call |-> "-", res |-> o.res,
                            pad |-> [name |-> name, tried |-> o.tried,
                                     warned |-> o.warned]])
    /\ UNCHANGED <<variant, launches, pc, teardown>>

\* The same in two steps, as the threads interleave: a streaming thread of
\* rtspsrc enters on_pad_added ...
pad_added_enter ==
    /\ pc = "running"
    /\ \E b \in Builds :
         /\ Active(b) /\ gst[b].padSig /\ ~gst[b].inCb
         /\ gst' = [gst EXCEPT ![b].inCb = TRUE]
    /\ UNCHANGED <<variant, launches, pc, app, nbuilds, last, prev, teardown>>

\* ... and runs it to its end, whatever the control thread did meanwhile.
pad_added_return ==
    /\ pc \in {"running", "shutdown"}
    /\ \E b \in Builds, name \in CapsNames, compat \in BOOLEAN :
         /\ gst[b].inCb
         /\ LET s == [Cur EXCEPT !.gst[b].inCb = FALSE]
                o == IF variant = "main_cpp"
                     THEN on_pad_added(s, b, name, compat)
                     ELSE on_pad_added_000(s, b, name, compat)
            IN Commit(o.s, [msg |-> "pad-added", call |-> "-", res |-> o.res,
                            pad |-> [name |-> name, tried |-> o.tried,
                                     warned |-> o.warned]])
    /\ UNCHANGED <<variant, launches, pc, teardown>>

\* rtspsrc announces a pad that has no current caps; on_pad_added of
\* main.cpp runs.  A crash ends the process where it is.
pad_added_nocaps ==
    /\ variant = "main_cpp" /\ pc = "running"
    /\ \E b \in Builds, checks \in BOOLEAN :
         /\ Active(b) /\ gst[b].padSig
         /\ LET o == on_pad_added_nocaps(Cur, b, checks)
            IN /\ Commit(o.s, [msg |-> "pad-added", call |-> "-", res |-> o.res,
                               pad |-> [name |-> NoCaps, tried |-> o.tried,
                                        warned |-> o.warned]])
               /\ pc' = IF o.res = "crash" THEN "crashed" ELSE pc
    /\ UNCHANGED <<variant, launches, teardown>>

Next ==
    \/ run_not_primary
    \/ on_app_activate \/ on_start_clicked \/ on_stop_clicked
    \/ bus_dispatch \/ on_app_shutdown \/ main_cleanup
    \/ on_app_activate_000 \/ on_start_clicked_000 \/ on_stop_clicked_000
    \/ bus_dispatch_000 \/ on_app_shutdown_000 \/ main_exit_000
    \/ on_sink_paintable_notify_000
    \/ engine_advance \/ engine_post \/ pad_added

Spec == Init /\ [][Next]_vars

\* The two viewers with on_pad_added running on its own thread.
NextPad ==
    \/ run_not_primary
    \/ on_app_activate \/ on_start_clicked \/ on_stop_clicked
    \/ bus_dispatch \/ on_app_shutdown \/ main_cleanup
    \/ on_app_activate_000 \/ on_start_clicked_000 \/ on_stop_clicked_000
    \/ bus_dispatch_000 \/ on_app_shutdown_000 \/ main_exit_000
    \/ on_sink_paintable_notify_000
    \/ engine_advance \/ engine_post
    \/ pad_added_enter \/ pad_added_return

SpecPad == Init /\ [][NextPad]_vars

\* main.cpp as GApplication runs it (G_APPLICATION_HANDLES_COMMAND_LINE):
\* the window is activated by on_command_line, once per launch.
InitCmd == Init /\ variant = "main_cpp"

NextCmd ==
    \/ run_not_primary
    \/ command_line \/ on_start_clicked \/ on_stop_clicked
    \/ bus_dispatch \/ on_app_shutdown \/ main_cleanup
    \/ engine_advance \/ engine_post \/ pad_added

SpecCmd == InitCmd /\ [][NextCmd]_vars

\* main.cpp with pads that may lack current caps.
NextCaps ==
    \/ run_not_primary
    \/ on_app_activate \/ on_start_clicked \/ on_stop_clicked
    \/ bus_dispatch \/ on_app_shutdown \/ main_cleanup
    \/ engine_advance \/ engine_post \/ pad_added \/ pad_added_nocaps

SpecCaps == InitCmd /\ [][NextCaps]_vars

\* The documented viewer.
NextDoc ==
    \/ run_not_primary
    \/ on_app_activate_doc \/ on_start_clicked_doc \/ on_stop_clicked_doc
    \/ bus_dispatch_doc \/ on_app_shutdown_doc \/ main_cleanup_doc
    \/ engine_advance \/ engine_post

SpecDoc == InitDoc /\ [][NextDoc]_vars

\* The headless player.
NextHl ==
    \/ hl_setup \/ hl_play \/ hl_loop_new \/ hl_loop_run
    \/ hl_bus_dispatch \/ hl_sigint \/ hl_stop
    \/ engine_advance \/ engine_post

SpecHl == InitHl /\ [][NextHl]_vars

\* Progress: the engine's threads keep changing the state of a pipeline
\* that was asked to play (strongly fair: the model's bound on waiting
\* messages, which the real bus does not have, must not starve it), and the
\* GLib main loop keeps dispatching the bus watch while messages wait, each
\* message in its turn.
LiveSpec ==
    /\ Spec
    /\ SF_vars(engine_advance)
    /\ WF_vars(bus_dispatch) /\ WF_vars(bus_dispatch_000)
    /\ WF_vars(bus_dispatch /\ last'.msg = "StateChangedPlaying")
    /\ WF_vars(bus_dispatch_000 /\ last'.msg = "StateChangedPlaying")

LiveDoc ==
    /\ SpecDoc
    /\ SF_vars(engine_advance)
    /\ WF_vars(bus_dispatch_doc)

\* Progress in the headless player: the main thread goes on through main,
\* and the running loop dispatches the bus watch while messages wait.
\* Nothing obliges an element to post a message or a signal to arrive.
LiveHl ==
    /\ SpecHl
    /\ WF_vars(hl_setup) /\ WF_vars(hl_play)
    /\ WF_vars(hl_loop_new) /\ WF_vars(hl_loop_run)
    /\ WF_vars(hl_bus_dispatch) /\ WF_vars(hl_stop)

----------------------------------------------------------------------------
\* Properties.

Faults == {"Error", "Eos"}
IsMain == variant = "main_cpp"
Is000 == variant = "part_000"

\* The running program's stop_stream and start_stream, as functions of the
\* state.
StopOf(s) == IF IsMain THEN stop_stream(s) ELSE stop_stream_000(s)
StartOf(s, fail, linkOk, r) ==
    IF IsMain THEN start_stream(s, fail, linkOk, r)
    ELSE start_stream_000(s, fail, linkOk, r)

Released(b) == gst[b].unrefs > 0
\* All six elements, owned by the live pipeline and statically linked.
Complete(b) ==
    gst[b].pipe /\ gst[b].inBin /\ gst[b].elems = Roles /\ gst[b].linked
\* No pipeline is started or playing.
NothingActive ==
    \A b \in Builds : gst[b].pipe => gst[b].state = "Null" /\ gst[b].target = "Null"

\* C1: every pipeline that is built and not yet released is the one
\* AppData.pipeline refers to, hence there is at most one.
C1_AtMostOnePipeline ==
    \A b \in Builds : gst[b].pipe => app.pipeline = b

\* C1 witness: a second pipeline is owned and asked to play after the first
\* one was released.
C1_Witness ==
    /\ nbuilds = 2 /\ app.pipeline = 2
    /\ gst[2].pipe /\ gst[2].target = "Playing"
    /\ Released(1) /\ gst[1].stopped

\* C2 as claimed: a pipeline that stop_stream has stopped is never asked to
\* play again (the start_stream after the stop builds a new one).
C2_Original ==
    \A b \in Builds : gst[b].stopped => gst[b].target # "Playing"

\* C2 amended: in main.cpp a pipeline that stop_stream has stopped is
\* released and never asked to play again; in part_000 the stopped pipeline
\* stays the owned one until the process exits, so the next start_stream
\* plays the same pipeline again.
C2_FreshBuildInMain ==
    \A b \in Builds :
        gst[b].stopped =>
            /\ IsMain => ~gst[b].pipe /\ gst[b].target # "Playing" /\ app.pipeline # b
            /\ Is000 /\ pc # "exited" => gst[b].pipe /\ app.pipeline = b

\* C2 witness: main.cpp, a start_stream right after a stop_stream that
\* stopped a playing pipeline, now playing a new build.
C2_Witness ==
    /\ IsMain
    /\ prev.call = "stop_stream" /\ prev.res = "stopped_playing"
    /\ last.call = "start_stream" /\ last.res = "playing"
    /\ gst[1].stopped /\ app.pipeline = 2 /\ gst[2].target = "Playing"

\* C3 as claimed: from every reachable state a second stop_stream changes
\* nothing, after stop_stream no pipeline is owned, and without a pipeline
\* stop_stream changes nothing.
C3_Original ==
    LET once == StopOf(Cur) IN
    /\ StopOf(once) = once
    /\ once.app.pipeline = 0
    /\ app.pipeline = 0 => once = Cur

\* C3 amended: a second stop_stream changes nothing and without a pipeline
\* stop_stream changes nothing; after stop_stream nothing is started or
\* playing; main.cpp owns no pipeline then, part_000 still owns the same
\* pipeline, in Null.
C3_StopIdempotent ==
    LET once == StopOf(Cur) IN
    /\ StopOf(once) = once
    /\ app.pipeline = 0 => once = Cur
    /\ \A b \in Builds :
          once.gst[b].pipe =>
              once.gst[b].state = "Null" /\ once.gst[b].target = "Null"
    /\ IsMain => once.app.pipeline = 0
    /\ Is000 => once.app.pipeline = app.pipeline

\* C3 witness: two stop_stream calls in a row, the first on a playing
\* pipeline.
C3_Witness ==
    /\ prev.call = "stop_stream" /\ prev.res = "stopped_playing"
    /\ last.call = "stop_stream"

\* C4: a released pipeline is in Null, with Null the state last requested.
C4_NullBeforeRelease ==
    \A b \in Builds : Released(b) => gst[b].state = "Null" /\ gst[b].target = "Null"

\* C4 witness: stop_stream has just released a pipeline that was playing.
C4_Witness ==
    /\ last.call = "stop_stream" /\ last.res = "stopped_playing"
    /\ \E b \in Builds : Released(b) /\ gst[b].stopped

\* C5 as claimed: after bus_cb handled Error or Eos, stop_stream was called,
\* no pipeline is owned, nothing plays, and the process runs on.
C5_Original ==
    last.msg \in Faults =>
        /\ last.call = "stop_stream"
        /\ app.pipeline = 0
        /\ NothingActive
        /\ pc = "running"

\* C5 amended: after bus_cb handled Error or Eos, stop_stream was called,
\* nothing is started or playing and the process runs on; main.cpp owns no
\* pipeline then, part_000 still owns the pipeline it stopped.
C5_FaultStops ==
    last.msg \in Faults =>
        /\ last.call = "stop_stream"
        /\ NothingActive
        /\ pc = "running"
        /\ IsMain => app.pipeline = 0
        /\ Is000 /\ last.res # "noop" => app.pipeline # 0 /\ gst[app.pipeline].pipe

\* C5 witness: bus_cb handled an Error while the pipeline was playing.
C5_Witness ==
    last.msg = "Error" /\ last.res = "stopped_playing"

C7_NoDoubleRelease ==
    \A b \in Builds : gst[b].unrefs <= 1 /\ ~gst[b].uaf

\* C7 witness: a fault handled after an earlier fault had already stopped
\* the pipeline, which has been released.
C7_Witness ==
    /\ prev.msg \in Faults /\ prev.res \in {"stopped_playing", "stopped_starting"}
    /\ last.msg \in Faults /\ last.res \in {"noop", "stopped_null"}
    /\ \E b \in Builds : gst[b].unrefs = 1

\* C8 as claimed: when the PLAYING request fails, start_stream returns with
\* nothing started and no pipeline owned or alive.
C8_Original ==
    last.res = "play_failed" =>
        /\ NothingActive
        /\ app.pipeline = 0
        /\ \A b \in Builds : ~gst[b].pipe

\* C8 amended: when the PLAYING request fails, start_stream returns with the
\* pipeline set to Null; main.cpp has also released it and owns none,
\* part_000 keeps owning it.
C8_FailedPlayTornDown ==
    last.res = "play_failed" =>
        /\ NothingActive
        /\ IsMain => app.pipeline = 0 /\ \A b \in Builds : ~gst[b].pipe
        /\ Is000 => app.pipeline # 0 /\ gst[app.pipeline].pipe

\* C8 witness: main.cpp returned from a failed PLAYING request and the
\* pipeline is released.
C8_Witness ==
    /\ last.res = "play_failed" /\ IsMain
    /\ nbuilds > 0 /\ Released(nbuilds)

\* C9 as claimed: after a failed ensure_pipeline AppData.pipeline is null,
\* and only a complete pipeline is ever asked to play.
C9_Claim ==
    /\ last.res = "build_failed" => app.pipeline = 0
    /\ \A b \in Builds : gst[b].target = "Playing" => Complete(b)

\* C10 as claimed: after a failed ensure_pipeline nothing that the call
\* constructed is still allocated.
C10_Claim ==
    last.res = "build_failed" =>
        ~gst[nbuilds].pipe /\ gst[nbuilds].elems = {}

\* The static link failed in the start_stream that returned last: the
\* elements had been given to the pipeline and the build failed all the same.
LinkFailed == last.res = "build_failed" /\ nbuilds > 0 /\ gst[nbuilds].inBin

\* C11 as claimed: after a failed static link the pipeline and all its
\* elements are released, AppData.pipeline is null and AppData.sink does not
\* refer to a released element.
C11_Claim ==
    LinkFailed =>
        /\ ~gst[nbuilds].pipe /\ gst[nbuilds].elems = {}
        /\ app.pipeline = 0
        /\ app.sink # 0 => "sink" \in gst[app.sink].elems

\* The running program's on_pad_added.
PadOf(s, b, name, compat) ==
    IF IsMain THEN on_pad_added(s, b, name, compat)
    ELSE on_pad_added_000(s, b, name, compat)

\* A build whose rtspsrc may emit pad-added now.
PadSource(b) == Active(b) /\ gst[b].padSig

IsVideo(name) == g_str_has_prefix(name, <<"video">>)

\* C12 as claimed: whatever pad is discovered, on_pad_added links it if and
\* only if its caps name starts with "video" (the depayloader input being
\* unlinked and the pads fitting), and a pad of another type is not touched:
\* no link call, no warning, no change.
C12_Original ==
    \A b \in Builds : PadSource(b) =>
        \A name \in CapsNames, compat \in BOOLEAN :
            LET o == PadOf(Cur, b, name, compat) IN
            /\ o.res = "ok" <=> (IsVideo(name) /\ ~gst[b].srcLinked /\ compat)
            /\ ~IsVideo(name) => ~o.tried /\ ~o.warned /\ o.s = Cur

\* C12 amended: main.cpp links a discovered pad if and only if its caps name
\* starts with "video/", the depayloader input is unlinked and the pads fit,
\* and it returns from any other type without a link call or a message;
\* part_000 does not look at the type: it tries to link every pad discovered
\* while the input is unlinked, and warns when that fails.
C12_VideoOnlyInMain ==
    \A b \in Builds : PadSource(b) =>
        \A name \in CapsNames, compat \in BOOLEAN :
            LET o == PadOf(Cur, b, name, compat) IN
            /\ IsMain =>
                 /\ o.res = "ok" <=>
                        (IsVideo(name) /\ ~gst[b].srcLinked /\ compat)
                 /\ o.tried <=> IsVideo(name)
                 /\ ~IsVideo(name) => ~o.warned /\ o.s = Cur
            /\ Is000 =>
                 /\ o.res = "ok" <=> (~gst[b].srcLinked /\ compat)
                 /\ o.tried <=> ~gst[b].srcLinked
                 /\ o.warned <=> (~gst[b].srcLinked /\ ~compat)

\* C12 witness: main.cpp, a video pad was linked and then an audio pad was
\* discovered and ignored.
C12_Witness ==
    /\ IsMain /\ last.msg = "pad-added"
    /\ ~IsVideo(last.pad.name) /\ last.res = "ignored"
    /\ app.pipeline # 0 /\ gst[app.pipeline].srcLinked

SinkOwned ==
    /\ app.pipeline # 0 /\ app.sink = app.pipeline
    /\ gst[app.pipeline].pipe /\ "sink" \in gst[app.sink].elems

\* C19: ensure_paintable never reads AppData.sink when it refers to a
\* released sink, and whenever it has read the sink (in start_stream past
\* ensure_pipeline, or in on_sink_paintable_notify) the sink belongs to the
\* owned pipeline; the paintable shown comes from a sink that was read alive.
C19_SinkReadWhileOwned ==
    /\ \A b \in Builds : ~gst[b].sinkUaf
    /\ last.msg = "notify::paintable" => SinkOwned /\ app.paintable = app.sink
    /\ (Is000 /\ last.res \in {"playing", "play_failed"}) =>
            SinkOwned /\ app.paintable = app.sink
    /\ (Is000 /\ last.res = "build_failed") => app.paintable # nbuilds

\* C19 witness: part_000, the first build failed, the second plays, and
\* on_sink_paintable_notify has read the second sink.
C19_Witness ==
    /\ Is000 /\ last.msg = "notify::paintable"
    /\ nbuilds = 2 /\ ~gst[1].pipe /\ app.sink = 2 /\ app.paintable = 2

\* The application was activated in this process.
WasActivated == app.start_button # "null"

\* C20 as claimed: when the process has exited, stop_stream was invoked
\* exactly once since shutdown began.
C20_Original == pc = "exited" => teardown = 1

\* C20 amended: teardown invokes stop_stream once from on_app_shutdown
\* (whenever the application ran in this process) and once more from main
\* after g_application_run returned; the second call finds no pipeline in
\* main.cpp and at most a pipeline already in Null in part_000, and from the
\* first call on nothing is started or playing.
C20_StopAtShutdownAndExit ==
    /\ pc \in {"init", "running"} => teardown = 0
    /\ pc = "shutdown" =>
          /\ teardown = IF WasActivated THEN 1 ELSE 0
          /\ WasActivated => last.call = "stop_stream"
    /\ pc = "exited" =>
          /\ teardown = IF WasActivated THEN 2 ELSE 1
          /\ last.call = "stop_stream"
          /\ IsMain => last.res = "noop"
          /\ Is000 => last.res \in {"noop", "stopped_null"}
    /\ pc \in {"shutdown", "exited"} => NothingActive

\* C20 witness: the process exited after a shutdown that found the pipeline
\* playing.
C20_Witness ==
    /\ pc = "exited" /\ teardown = 2
    /\ prev.call = "stop_stream" /\ prev.res = "stopped_playing"

IsDoc == variant = "doc"

\* A pipeline that can play: alive, watched, and either the whole hardware
\* pipeline, linked, or a playbin with its video sink.
Usable(g) ==
    /\ g.pipe /\ g.watch
    /\ \/ g.tier = 1 /\ g.elems = Roles /\ g.linked
       \/ g.tier = 2 /\ "sink" \in g.elems

\* C15 as claimed (documented viewer): a start_stream that returned with a
\* pipeline asked to play selected a usable one (the playbin whenever the
\* hardware decoder is missing), and ensure_pipeline fails only when none of
\* the candidate sinks could be constructed.
C15_Claim ==
    (IsDoc /\ last.call = "start_stream") =>
        /\ last.res = "playing" => Usable(gst[app.pipeline])
        /\ last.res = "build_failed" =>
               gst[nbuilds].tried = <<"hw", "playbin">> \o candidates

C17_TiersInOrder ==
    LET order == <<"hw", "playbin">> \o candidates IN
    /\ \A b \in Builds :
          LET tr == gst[b].tried IN
          /\ Len(tr) <= Len(order) /\ tr = SubSeq(order, 1, Len(tr))
          /\ gst[b].tier = 1 => tr = <<"hw">>
          /\ gst[b].tier = 2 => Len(tr) >= 3
          /\ b <= nbuilds => Len(tr) >= 1
          /\ b > nbuilds => tr = <<>>
    /\ (IsDoc /\ last.res = "build_failed") => app.pipeline = 0 /\ NothingActive

\* C17 witness: the hardware pipeline failed, the playbin was made, the
\* first candidate sink failed and the second was taken.
C17_Witness ==
    /\ IsDoc /\ last.res = "playing" /\ app.pipeline # 0
    /\ gst[app.pipeline].tried = <<"hw", "playbin", "autovideosink", "xvimagesink">>
    /\ gst[app.pipeline].tier = 2

\* C18 as claimed (main.cpp, latency 10, protocols UDP|TCP): after a
\* start_stream that returned with the pipeline asked to play, bus_cb
\* handles the pipeline's Paused -> Playing message, unless the pipeline
\* is stopped first (stop, Error, EOS) or the application shuts down.
C18_Claim ==
    \A b \in Builds :
        (IsMain /\ app.latency_ms = 10 /\ protocols_main = 3
                /\ last.call = "start_stream" /\ last.res = "playing"
                /\ app.pipeline = b)
        ~> (last.msg = "StateChangedPlaying" \/ app.pipeline # b
                \/ gst[b].target # "Playing" \/ pc # "running")

\* The same for pipelines that ensure_pipeline completed, in either viewer.
C18_OnCompletePipeline ==
    \A b \in Builds :
        (last.call = "start_stream" /\ last.res = "playing"
                /\ app.pipeline = b /\ gst[b].watch)
        ~> (last.msg = "StateChangedPlaying" \/ app.pipeline # b
                \/ gst[b].target # "Playing" \/ pc # "running")

\* C21 as claimed: once a pipeline is released no message is taken from its
\* bus any more (its watch is gone), hence no stop_stream made by bus_cb for
\* an Error or Eos stops a pipeline other than the one that posted it.
C21_Claim ==
    [][\A b \in Builds :
          Released(b) =>
              /\ gst'[b].bus = gst[b].bus
              /\ (last'.msg \in Faults /\ app.pipeline # 0 /\ app.pipeline # b
                    /\ gst'[app.pipeline].stopped)
                   => gst[app.pipeline].stopped]_vars

\* C22 as claimed (main.cpp): a pipeline that ensure_pipeline completes is
\* built with the hardware decoder when the decoder flag of the command line
\* is set (force_hw) and with the software decoder otherwise.
C22_Claim ==
    [][\A b \in Builds :
          (IsMain /\ ~gst[b].pipe /\ gst'[b].pipe /\ gst'[b].linked)
              => gst'[b].decoder = IF app'.force_hw THEN dec_000 ELSE dec_main]_vars

\* C29 as claimed (main.cpp): the pipeline AppData.pipeline refers to was
\* configured from the URL and the latency AppData holds now, and once the
\* application runs no handler changes the two.
C29_Claim ==
    [][/\ \A b \in Builds :
            (IsMain /\ app'.pipeline = b /\ gst'[b].inBin)
                => /\ gst'[b].location = app'.url
                   /\ gst'[b].latency = app'.latency_ms
       /\ pc = "running"
            => app'.url = app.url /\ app'.latency_ms = app.latency_ms]_vars

\* C23 as claimed: every pipeline ensure_pipeline configures gets a
\* transport mask that allows UDP and allows TCP.
C23_Claim ==
    \A b \in Builds :
        gst[b].inBin =>
            /\ Allows(gst[b].protocols, GST_RTSP_LOWER_TRANS_UDP)
            /\ Allows(gst[b].protocols, GST_RTSP_LOWER_TRANS_TCP)

\* The running program's bus_cb for a message from the bus of build b.
BusCbOf(s, b, kind) ==
    IF IsMain THEN bus_cb(s, kind) ELSE bus_cb_000(s, b, kind)

LogOnlyKinds == {"StateChanged", "StateChangedPlaying", "StateChangedChild",
                 "Warning"}

\* C24: in every reachable state bus_cb, given a state-change or a warning
\* message from any bus, returns without calling stop_stream and with
\* AppData and every GStreamer object as they were; and whenever such a
\* message was the last thing handled, no stop_stream was called for it.
C24_LogOnly ==
    /\ \A b \in Builds, kind \in LogOnlyKinds :
          LET o == BusCbOf(Cur, b, kind) IN
          o.s = Cur /\ o.res \in {"logged", "ignored"}
    /\ last.msg \in LogOnlyKinds => last.call = "-"

\* C24 witness: a warning was handled while the pipeline was asked to play
\* with its source pad linked, and it is still so, the Stop button
\* sensitive.
C24_Witness ==
    /\ last.msg = "Warning" /\ app.pipeline # 0
    /\ gst[app.pipeline].target = "Playing" /\ gst[app.pipeline].srcLinked
    /\ app.stop_button = "sensitive" /\ app.start_button = "insensitive"

C26_Claim ==
    [][/\ \A b \in Builds :
            (~gst[b].srcLinked /\ gst'[b].srcLinked)
                => last'.msg = "pad-added" /\ app.pipeline = b
       /\ (last'.call = "start_stream" /\ last'.res = "playing")
            => gst'[app'.pipeline].linked]_vars

\* C28: when the process has exited no pipeline is owned or alive, every
\* pipeline that was built has been released once and not used afterwards,
\* and it was in Null when released.
C28_ReleasedOnceAtExit ==
    pc = "exited" =>
        /\ app.pipeline = 0
        /\ \A b \in Builds :
              /\ ~gst[b].pipe
              /\ gst[b].unrefs <= 1 /\ ~gst[b].uaf
              /\ gst[b].state = "Null" /\ gst[b].target = "Null"
              /\ gst[b].watch => gst[b].unrefs = 1

\* C28 witness: the process exited after the shutdown handler had stopped a
\* playing pipeline, main's stop_stream coming second.
C28_Witness ==
    /\ pc = "exited" /\ teardown = 2
    /\ prev.call = "stop_stream" /\ prev.res = "stopped_playing"
    /\ last.call = "stop_stream"
    /\ \E b \in Builds : gst[b].stopped /\ gst[b].unrefs = 1

\* C27 (documented viewer): whenever ensure_pipeline gets to the playbin,
\* it constructs the candidate sinks in their order up to the first one that
\* can be made and none after it, and selects the playbin with that sink;
\* when none can be made it has tried all four, returns FALSE, and the
\* playbin is released with no pipeline owned or alive.
C27_FirstConstructibleSink ==
    /\ (IsDoc /\ app.pipeline = 0 /\ nbuilds < MaxBuilds) =>
          \A in \in DocInputs :
              (in.parse = "null" /\ in.playbin) =>
                  LET e == ensure_pipeline_doc(Cur, in)
                      b == nbuilds + 1
                      g == e.s.gst[b]
                      k == Len(g.tried) - 2
                  IN /\ k \in 1..Len(candidates)
                     /\ g.tried = <<"hw", "playbin">> \o SubSeq(candidates, 1, k)
                     /\ \A i \in 1..(k - 1) : candidates[i] \notin in.sinks
                     /\ IF candidates[k] \in in.sinks
                        THEN /\ e.ok /\ e.s.app.pipeline = b
                             /\ g.pipe /\ g.tier = 2 /\ "sink" \in g.elems
                        ELSE /\ ~e.ok /\ k = Len(candidates)
                             /\ e.s.app.pipeline = 0
                             /\ g.unrefs = 1
                             /\ \A x \in Builds : ~e.s.gst[x].pipe
    /\ (IsDoc /\ last.res = "build_failed")
          => app.pipeline = 0 /\ ~gst[nbuilds].pipe

\* C27 witness: a start_stream found the playbin but none of the four
\* sinks; the playbin is released and nothing is owned.
C27_Witness ==
    /\ IsDoc /\ last.res = "build_failed" /\ app.pipeline = 0
    /\ gst[nbuilds].tried = <<"hw", "playbin">> \o candidates
    /\ gst[nbuilds].unrefs = 1 /\ ~gst[nbuilds].pipe

\* C30: with on_pad_added running on a streaming thread, interleaved with
\* the control thread's handlers in every way, the callback never uses the
\* depayloader of a released pipeline: while a callback is in progress its
\* pipeline and depayloader are allocated.
C30_NoCallbackAfterRelease ==
    \A b \in Builds :
        /\ ~gst[b].padUaf
        /\ gst[b].inCb => gst[b].pipe /\ "depay" \in gst[b].elems

\* C30 witness: main.cpp's stop_stream ran while a callback was in progress;
\* set_state(NULL) waited for it, and the pipeline is now released.
C30_Witness ==
    /\ IsMain /\ last.call = "stop_stream"
    /\ \E b \in Builds : gst[b].joined /\ Released(b) /\ ~gst[b].padUaf

\* C31: in the viewer of part_000 no link outlives a session.  A link from
\* rtspsrc to the depayloader exists only on a pipeline that is playing or on
\* its way there; the state a start_stream leaves has none, whatever stop
\* came before; and wherever the source can announce a pad and none is
\* linked, on_pad_added called with a compatible video pad passes the
\* already-linked guard and links it.
C31_FirstPadOfNewSessionLinked ==
    /\ \A b \in Builds :
          gst[b].srcLinked =>
              gst[b].pipe /\ gst[b].state # "Null" /\ gst[b].target = "Playing"
    /\ (Is000 /\ last.call = "start_stream" /\ last.res = "playing")
          => ~gst[app.pipeline].srcLinked
    /\ \A b \in Builds :
          (Is000 /\ PadSource(b) /\ ~gst[b].srcLinked) =>
              LET o == on_pad_added_000(Cur, b, <<"video", "/", "x-h264">>, TRUE)
              IN o.res = "ok" /\ o.tried /\ o.s.gst[b].srcLinked

\* C31 witness: the pipeline was stopped, start_stream set it playing again,
\* and the video pad announced since then was linked.
C31_Witness ==
    /\ Is000 /\ app.pipeline # 0
    /\ gst[app.pipeline].stopped
    /\ prev.call = "start_stream" /\ prev.res = "playing"
    /\ last.msg = "pad-added" /\ last.res = "ok" /\ IsVideo(last.pad.name)
    /\ gst[app.pipeline].srcLinked

\* C32: once the window exists exactly one of the two buttons is sensitive,
\* and it is the Stop button exactly when a pipeline is owned whose last
\* requested state is PLAYING.
C32_ButtonsFollowStream ==
    WasActivated =>
        /\ (app.start_button = "sensitive") # (app.stop_button = "sensitive")
        /\ app.stop_button = "sensitive"
              <=> (app.pipeline # 0 /\ gst[app.pipeline].target = "Playing")

\* C32 witness: a failed PLAYING request in part_000 left the pipeline owned
\* in NULL, with the Start button sensitive and the Stop button not.
C32_Witness ==
    /\ Is000 /\ WasActivated
    /\ last.call = "start_stream" /\ last.res = "play_failed"
    /\ app.pipeline # 0 /\ gst[app.pipeline].target = "Null"
    /\ app.start_button = "sensitive" /\ app.stop_button = "insensitive"

\* C33 (as stated): on_pad_added of main.cpp, given a pad without current
\* caps, returns before the link call without a fault: no criticals, no
\* crash, the process still running.
C33_Claim ==
    (IsMain /\ last.msg = "pad-added" /\ last.pad.name = NoCaps) =>
        /\ last.res = "ignored" /\ ~last.pad.tried
        /\ pc = "running"

IsHl == variant = "headless"

\* The handler in "last" called g_main_loop_quit on the running loop.
QuitRequested ==
    /\ last.msg \in Faults \cup {"SIGINT"}
    /\ last.call = "g_main_loop_quit" /\ last.res = "stopping"

\* C34 (as stated): in the headless player a handled Error or Eos, and a
\* SIGINT handled while the loop runs, leave the loop's running flag clear,
\* and from then on the program reaches its exit with status 0, the pipeline
\* in NULL and released once.  Status 1 is returned only with no pipeline and
\* no loop ever created.
C34_Claim ==
    /\ [](IsHl =>
          /\ (last.msg \in Faults /\ pc = "running") => ~app.is_running
          /\ (QuitRequested /\ pc = "running") => ~app.is_running
          /\ app.status = 1 =>
                /\ pc = "exited" /\ app.loop = "null" /\ app.pipeline = 0
                /\ \A b \in Builds : gst[b] = NoBuild
          /\ (pc = "exited" /\ app.status # 1) =>
                /\ app.status = 0 /\ app.loop = "freed"
                /\ gst[app.pipeline].state = "Null"
                /\ gst[app.pipeline].unrefs = 1
                /\ ~gst[app.pipeline].pipe /\ ~gst[app.pipeline].uaf)
    /\ (IsHl /\ pc = "running" /\ ~app.is_running)
          ~> (pc = "exited" /\ app.status = 0)

\* C35 (as stated): a SIGINT delivered at any point after the handler is
\* installed eventually makes the program stop the pipeline and exit.
C35_Claim ==
    (IsHl /\ app.sigints > 0) ~> (pc = "exited" /\ app.status = 0)

====
